---- MODULE Spec2Model ----
(***************************************************************************)
(* Model of the pooled ProjectileSystem of AI-Studio-Gojo-Limitless        *)
(* (src/unnamed/part_000, the InstancedMesh version of InfinityScene.tsx). *)
(*                                                                         *)
(* Numbers.  A JavaScript number is modelled as a fixed-point integer in   *)
(* units of 1/ONE (ONE = 1000 stands for 1.0), together with the three    *)
(* IEEE-754 special values NaN, +Infinity and -Infinity, which follow the  *)
(* IEEE rules in every operation.  Finite products and quotients are       *)
(* truncated toward zero to the unit.  Finite overflow is not modelled:    *)
(* every finite value of the model stays far below the range of a double.  *)
(***************************************************************************)
EXTENDS Integers, Sequences, FiniteSets, TLC

\* ------------------------------------------------------------------------
\* Fixed-point numbers with IEEE special values
\* ------------------------------------------------------------------------
ONE == 10 * 100

NaN == 2000000002
PInf == 2000000001
NInf == -2000000001

Abs(a) == IF a < 0 THEN -a ELSE a
Sgn(a) == IF a < 0 THEN -1 ELSE IF a > 0 THEN 1 ELSE 0

isNaN(a) == a = NaN
IsInf(a) == a = PInf \/ a = NInf
isFinite(a) == ~isNaN(a) /\ ~IsInf(a)

\* |a| * |b| / ONE for finite magnitudes, without leaving 32 bits: with
\* b = q*ONE + h*100 + l,  a*b/ONE = a*q + (a*h + a*l div 100) div 10
MulMag(a, b) ==
  LET q == b \div ONE
      r == b % ONE
  IN  a * q + ((a * (r \div 100) + (a * (r % 100)) \div 100) \div 10)

\* |a| * ONE / |b| for finite magnitudes, b > 0
DivMag(a, b) ==
  LET q  == a \div b
      r  == a % b
      q1 == (r * 100) \div b
      r1 == (r * 100) % b
  IN  q * ONE + q1 * 10 + (r1 * 10) \div b

FNeg(a) == IF isNaN(a) THEN NaN ELSE -a

FAdd(a, b) ==
  IF isNaN(a) \/ isNaN(b) THEN NaN
  ELSE IF IsInf(a) THEN (IF IsInf(b) /\ b # a THEN NaN ELSE a)
  ELSE IF IsInf(b) THEN b
  ELSE a + b

FSub(a, b) == FAdd(a, FNeg(b))

FMul(a, b) ==
  IF isNaN(a) \/ isNaN(b) THEN NaN
  ELSE IF IsInf(a) \/ IsInf(b)
       THEN (IF a = 0 \/ b = 0 THEN NaN
             ELSE IF Sgn(a) * Sgn(b) > 0 THEN PInf ELSE NInf)
  ELSE Sgn(a) * Sgn(b) * (IF Abs(a) >= Abs(b) THEN MulMag(Abs(a), Abs(b))
                           ELSE MulMag(Abs(b), Abs(a)))

FDiv(a, b) ==
  IF isNaN(a) \/ isNaN(b) THEN NaN
  ELSE IF IsInf(a) THEN (IF IsInf(b) THEN NaN
                         ELSE IF Sgn(a) * (IF b < 0 THEN -1 ELSE 1) > 0
                              THEN PInf ELSE NInf)
  ELSE IF IsInf(b) THEN 0
  ELSE IF b = 0 THEN (IF a = 0 THEN NaN ELSE IF a > 0 THEN PInf ELSE NInf)
  ELSE Sgn(a) * Sgn(b) * DivMag(Abs(a), Abs(b))

\* Comparisons: every comparison with NaN is false
FLt(a, b) == ~isNaN(a) /\ ~isNaN(b) /\ a < b
FGt(a, b) == FLt(b, a)
FGe(a, b) == ~isNaN(a) /\ ~isNaN(b) /\ a >= b

\* Math.max / Math.min: NaN if either argument is NaN
FMax(a, b) == IF isNaN(a) \/ isNaN(b) THEN NaN ELSE IF a >= b THEN a ELSE b
FMin(a, b) == IF isNaN(a) \/ isNaN(b) THEN NaN ELSE IF a <= b THEN a ELSE b

\* Math.pow(a, n) for the integer exponents the code uses (3 and 4)
RECURSIVE FPow(_, _)
FPow(a, n) == IF n = 1 THEN a ELSE FMul(FPow(a, n - 1), a)

\* floor(sqrt(a * ONE)) by Newton's iteration from x >= sqrt(a * ONE), a > 0
RECURSIVE SqrtNewton(_, _)
SqrtNewton(a, x) ==
  LET y == (x + DivMag(a, x)) \div 2
  IN  IF y >= x THEN x ELSE SqrtNewton(a, y)

\* Math.sqrt
FSqrt(a) ==
  IF isNaN(a) \/ a < 0 THEN NaN
  ELSE IF a = PInf THEN PInf
  ELSE IF a = 0 THEN 0
  ELSE SqrtNewton(a, IF a <= 4 * ONE THEN 2 * ONE
                     ELSE IF a <= 64 * ONE THEN 8 * ONE
                     ELSE IF a <= 1024 * ONE THEN 32 * ONE
                     ELSE IF a <= 16384 * ONE THEN 128 * ONE
                     ELSE IF a <= 262144 * ONE THEN 512 * ONE
                     ELSE 2048 * ONE)

\* ------------------------------------------------------------------------
\* THREE.Vector3 as <<x, y, z>>
\* ------------------------------------------------------------------------
Vec(x, y, z) == <<x, y, z>>
ZeroVec == Vec(0, 0, 0)

VAdd(u, v) == Vec(FAdd(u[1], v[1]), FAdd(u[2], v[2]), FAdd(u[3], v[3]))
VSub(u, v) == Vec(FSub(u[1], v[1]), FSub(u[2], v[2]), FSub(u[3], v[3]))
multiplyScalar(v, k) == Vec(FMul(v[1], k), FMul(v[2], k), FMul(v[3], k))
VNegate(v) == Vec(FNeg(v[1]), FNeg(v[2]), FNeg(v[3]))
VDot(u, v) == FAdd(FAdd(FMul(u[1], v[1]), FMul(u[2], v[2])), FMul(u[3], v[3]))
lengthSq(v) == VDot(v, v)
length(v) == FSqrt(lengthSq(v))

divideScalar(v, d) == Vec(FDiv(v[1], d), FDiv(v[2], d), FDiv(v[3], d))

\* this.length() || 1
LengthOr1(l) == IF l = 0 \/ isNaN(l) THEN ONE ELSE l

\* Vector3.normalize: divideScalar(this.length() || 1)
normalize(v) == divideScalar(v, LengthOr1(length(v)))

crossVectors(a, b) ==
  Vec(FSub(FMul(a[2], b[3]), FMul(a[3], b[2])),
      FSub(FMul(a[3], b[1]), FMul(a[1], b[3])),
      FSub(FMul(a[1], b[2]), FMul(a[2], b[1])))

\* new Vector3((Math.random()-0.5)*k, (Math.random()-0.5)*k, (Math.random()-0.5)*k)
\* for three draws r of Math.random()
RandomVec(r, k) ==
  Vec(FMul(r[1] - ONE \div 2, k), FMul(r[2] - ONE \div 2, k), FMul(r[3] - ONE \div 2, k))

\* ------------------------------------------------------------------------
\* Force models (one frame of one active particle p).  dt is safeDelta, dist
\* the particle's distance from the origin on entry, r the three
\* Math.random() draws the branch consumes.  The working values of the loop
\* body are the record s: _velocity, moveVec, and p.scale / p.active as the
\* statements executed so far leave them.
\* ------------------------------------------------------------------------
\* lines 248-249
Start(p, dt) ==
  [velocity |-> p.velocity, moveVec |-> multiplyScalar(p.velocity, dt),
   scale |-> p.scale, active |-> p.active]

interactionRadius == 3500
stoppingRadius == 1350

\* lines 256-258
NeutralRatio(dist) ==
  FDiv(FMax(0, FSub(dist, stoppingRadius)), interactionRadius - stoppingRadius)

\* v.multiplyScalar(Math.max(0.0001, speedFactor)): a speedFactor below the
\* unit of the model is the floor 0.0001 = 1 / (10 * ONE)
ScaleByFloor(v, speedFactor) ==
  IF isNaN(speedFactor) THEN multiplyScalar(v, NaN)
  ELSE IF speedFactor > 0 THEN multiplyScalar(v, speedFactor)
  ELSE divideScalar(v, 10 * ONE * ONE)

\* lines 259-261
NeutralSlow(s, ratio) ==
  [s EXCEPT !.moveVec = ScaleByFloor(s.moveVec, FPow(ratio, 3))]

\* NeutralVibrates without the test ratio > 0.0
NeutralVibrates_AtZero(ratio) == FLt(ratio, 300)

\* line 263
NeutralVibrates(ratio) == FLt(ratio, 300) /\ FGt(ratio, 0)

\* lines 263-270
NeutralVibrate(s, ratio, r) ==
  IF NeutralVibrates(ratio)
  THEN [s EXCEPT !.moveVec =
          VAdd(s.moveVec, RandomVec(r, FMul(80, FSub(ONE, FDiv(ratio, 300)))))]
  ELSE s

\* lines 272-276
NeutralShrink(s, ratio, isCrowded) ==
  IF isCrowded
  THEN (IF FLt(ratio, 500) THEN [s EXCEPT !.scale = FMul(s.scale, 900)] ELSE s)
  ELSE (IF FLt(ratio, 100) THEN [s EXCEPT !.scale = FMul(s.scale, 995)] ELSE s)

\* lines 256-276
NeutralInside(s, ratio, isCrowded, r) ==
  NeutralShrink(NeutralVibrate(NeutralSlow(s, ratio), ratio, r), ratio, isCrowded)

\* lines 251-277
NeutralForce(s, dist, isCrowded, r) ==
  IF FLt(dist, interactionRadius)
  THEN NeutralInside(s, NeutralRatio(dist), isCrowded, r)
  ELSE s

coreRadiusBlue == 2000
attractionRadius == 15000
pullStrength == 20
shrinkThreshold == 8

\* line 283
BluePullDir(p, dist) ==
  IF FGt(dist, 100) THEN VNegate(normalize(p.position)) ELSE ZeroVec

\* BluePull without the test dist < attractionRadius
BluePull_Everywhere(s, p, dist, dt) ==
  [s EXCEPT !.velocity =
     VAdd(s.velocity, multiplyScalar(BluePullDir(p, dist), pullStrength * dt))]

\* lines 282-286
BluePull(s, p, dist, dt) ==
  IF FLt(dist, attractionRadius)
  THEN [s EXCEPT !.velocity =
          VAdd(s.velocity, multiplyScalar(BluePullDir(p, dist), pullStrength * dt))]
  ELSE s

\* lines 290-292
BlueShake(dist) ==
  FAdd(50, FMul(FPow(FMax(0, FSub(ONE, FDiv(dist, coreRadiusBlue + ONE))), 4), 600))

\* lines 288-298
BlueCore(s, dist, r) ==
  IF FLt(dist, coreRadiusBlue + ONE)
  THEN [s EXCEPT !.velocity = multiplyScalar(s.velocity, 850),
                 !.moveVec = VAdd(s.moveVec, RandomVec(r, BlueShake(dist)))]
  ELSE s

\* ShrinkFactor without the floor Math.max(0.8, .)
ShrinkFactor_NoFloor(trappedCount) ==
  LET excess == trappedCount - shrinkThreshold
      capped == IF excess < 50 THEN excess ELSE 50
  IN  990 - capped * 5

\* Math.max(0.8, 0.99 - Math.min(excess, 50) * 0.005), lines 302-304
ShrinkFactor(trappedCount) ==
  LET excess == trappedCount - shrinkThreshold
      capped == IF excess < 50 THEN excess ELSE 50
  IN  FMax(800, 990 - capped * 5)

\* lines 300-305
BlueShrink(s, dist, trappedCount) ==
  IF trappedCount > shrinkThreshold /\ FLt(dist, coreRadiusBlue + ONE \div 2)
  THEN [s EXCEPT !.scale = FMul(s.scale, ShrinkFactor(trappedCount))]
  ELSE s

\* lines 307-308: moveVec is assigned anew from _velocity
BlueMove(s, dt) ==
  [s EXCEPT !.moveVec = multiplyScalar(s.velocity, dt),
            !.active = IF FLt(s.scale, 100) THEN FALSE ELSE s.active]

\* lines 278-309
BlueForce(s, p, dist, dt, trappedCount, r) ==
  BlueMove(BlueShrink(BlueCore(BluePull(s, p, dist, dt), dist, r), dist, trappedCount), dt)

repulsionRadius == 4500
coreRadiusRed == 1500

\* line 315
RedDirOut(p, dist) ==
  IF FGt(dist, 10) THEN normalize(p.position) ELSE Vec(ONE, 0, 0)

\* lines 315-316.  dirOut is one Vector3 that multiplyScalar and sub change
\* in place: the field dirOut is its current value.
RedEnter(s, dirOut) ==
  [velocity |-> s.velocity, moveVec |-> s.moveVec, scale |-> s.scale,
   active |-> s.active, dirOut |-> dirOut,
   approachSpeed |-> FNeg(VDot(s.velocity, dirOut))]

\* lines 317-320
RedIntensity(dist) ==
  FPow(FSub(ONE, FMax(0, FDiv(FSub(dist, coreRadiusRed),
                              repulsionRadius - coreRadiusRed))), 3)

\* lines 321-328
RedTotalForce(approachSpeed, intensity, dt) ==
  FMul(FAdd(FMul(80 * ONE, intensity),
            IF FGt(approachSpeed, 0)
            THEN FMul(approachSpeed, FAdd(ONE, FMul(40 * ONE, intensity)))
            ELSE 0),
       dt)

\* lines 330-333
RedAdd(t, totalForce, dt) ==
  IF ~isNaN(totalForce) /\ isFinite(totalForce)
  THEN [t EXCEPT
          !.dirOut = multiplyScalar(t.dirOut, totalForce),
          !.velocity = VAdd(t.velocity, multiplyScalar(t.dirOut, totalForce)),
          !.moveVec = multiplyScalar(
                        VAdd(t.velocity, multiplyScalar(t.dirOut, totalForce)), dt)]
  ELSE t

\* lines 317-333
RedAccelerate(t, dist, dt) ==
  RedAdd(t, RedTotalForce(t.approachSpeed, RedIntensity(dist), dt), dt)

\* line 336: pushOut is dirOut itself
RedPushOut(t) ==
  [t EXCEPT !.dirOut = multiplyScalar(t.dirOut, coreRadiusRed + 200)]

\* line 337: pushOut.sub(p.position) changes dirOut again
RedPlace(t, p) ==
  [t EXCEPT !.dirOut = VSub(t.dirOut, p.position),
            !.moveVec = VAdd(t.moveVec, VSub(t.dirOut, p.position))]

\* lines 339-342
RedBounce(t) ==
  IF FGt(t.approachSpeed, 0)
  THEN [t EXCEPT
          !.dirOut = multiplyScalar(t.dirOut, FMul(length(t.velocity), 800)),
          !.velocity = multiplyScalar(t.dirOut, FMul(length(t.velocity), 800))]
  ELSE t

\* line 335
RedClamps(dist) == FLt(dist, coreRadiusRed + 200)

\* lines 335-343
RedClamp(t, p, dist) ==
  IF RedClamps(dist) THEN RedBounce(RedPlace(RedPushOut(t), p)) ELSE t

RedLeave(t) ==
  [velocity |-> t.velocity, moveVec |-> t.moveVec, scale |-> t.scale,
   active |-> t.active]

\* lines 310-344
RedForce(s, p, dist, dt) ==
  IF FLt(dist, repulsionRadius)
  THEN RedLeave(RedClamp(RedAccelerate(RedEnter(s, RedDirOut(p, dist)), dist, dt),
                         p, dist))
  ELSE s

curveRatio == 250

\* line 346
PurpleInward(p) == VNegate(normalize(p.position))

\* line 349
TangentOrX(tangent) ==
  IF FLt(lengthSq(tangent), 1) THEN Vec(ONE, 0, 0) ELSE tangent

\* lines 347-349
PurpleTangent(p) ==
  TangentOrX(normalize(crossVectors(Vec(0, ONE, 0), p.position)))

\* lines 351-352
PurpleSpeed(dist) ==
  FAdd(15 * ONE, FMul(FMax(ONE, FSub(15 * ONE, dist)), 2 * ONE))

\* lines 354-357
PurpleDirection(inward, tangent) ==
  normalize(VAdd(multiplyScalar(inward, ONE - curveRatio),
                 multiplyScalar(tangent, curveRatio)))

\* PurpleSteer that adds the steering velocity to the velocity the particle had
PurpleSteer_AddsToVelocity(s, p, dist) ==
  [s EXCEPT !.velocity =
     VAdd(s.velocity,
          multiplyScalar(PurpleDirection(PurpleInward(p), PurpleTangent(p)),
                         PurpleSpeed(dist)))]

\* line 359
PurpleSteer(s, p, dist) ==
  [s EXCEPT !.velocity =
     multiplyScalar(PurpleDirection(PurpleInward(p), PurpleTangent(p)),
                    PurpleSpeed(dist))]

\* lines 361-368
PurpleMove(s, dist, dt, r) ==
  [s EXCEPT !.moveVec =
     VAdd(multiplyScalar(s.velocity, dt),
          RandomVec(r, FAdd(500, FMul(FSub(10 * ONE, dist), 200))))]

\* PurpleShrink with the factor inverted: the particle grows
PurpleShrink_Grows(s, dist) ==
  IF FLt(dist, 3 * ONE) THEN [s EXCEPT !.scale = FDiv(s.scale, 850)] ELSE s

\* line 370
PurpleShrink(s, dist) ==
  IF FLt(dist, 3 * ONE) THEN [s EXCEPT !.scale = FMul(s.scale, 850)] ELSE s

\* line 371
PurpleAbsorb(s, dist) ==
  IF FLt(s.scale, 50) \/ FLt(dist, 200) THEN [s EXCEPT !.active = FALSE] ELSE s

\* lines 345-372
PurpleForce(s, p, dist, dt, r) ==
  PurpleAbsorb(PurpleShrink(PurpleMove(PurpleSteer(s, p, dist), dist, dt, r), dist),
               dist)

\* ------------------------------------------------------------------------
\* One slot of the pass at lines 231-392: the force model of the mode, the
\* commit, the bounds check and the matrix write.
\* ------------------------------------------------------------------------
\* lines 251-372
ApplyForce(p, dist, technique, dt, counts, r) ==
  CASE technique = "NEUTRAL" -> NeutralForce(Start(p, dt), dist, counts.isCrowded, r)
    [] technique = "BLUE"    -> BlueForce(Start(p, dt), p, dist, dt, counts.trappedCount, r)
    [] technique = "RED"     -> RedForce(Start(p, dt), p, dist, dt)
    [] technique = "PURPLE"  -> PurpleForce(Start(p, dt), p, dist, dt, r)

\* the branch of the mode calls Math.random() for particle p
ConsumesDraws(p, technique) ==
  /\ p.active
  /\ CASE technique = "NEUTRAL" ->
            /\ FLt(length(p.position), interactionRadius)
            /\ NeutralVibrates(NeutralRatio(length(p.position)))
       [] technique = "BLUE"    -> FLt(length(p.position), coreRadiusBlue + ONE)
       [] technique = "RED"     -> FALSE
       [] technique = "PURPLE"  -> TRUE

\* Commit without the age update of line 377
Commit_KeepsAge(p, s, dt) ==
  [active   |-> s.active,
   position |-> VAdd(p.position, s.moveVec),
   velocity |-> s.velocity,
   color    |-> p.color,
   scale    |-> s.scale,
   age      |-> p.age]

\* lines 375-377
Commit(p, s, dt) ==
  [active   |-> s.active,
   position |-> VAdd(p.position, s.moveVec),
   velocity |-> s.velocity,
   color    |-> p.color,
   scale    |-> s.scale,
   age      |-> FAdd(p.age, dt)]

\* the condition of line 380
OutOfBounds(p) ==
  FGt(length(p.position), 30 * ONE) \/ FLt(p.scale, 10) \/ isNaN(p.position[1])

\* dummy.matrix after updateMatrix(): translation and uniform scale
Matrix(position, scale) == [position |-> position, scale |-> scale]
HiddenMatrix == Matrix(ZeroVec, 0)

\* lines 380-391 for the committed slot p: a slot the bounds check removes
\* is left without a write (its old entries stay); any other slot gets its
\* new transform and its color.
BoundsAndWrite(p, oldMatrix, oldColor) ==
  IF OutOfBounds(p)
  THEN [slot |-> [p EXCEPT !.active = FALSE], matrix |-> oldMatrix, color |-> oldColor]
  ELSE [slot |-> p, matrix |-> Matrix(p.position, p.scale), color |-> p.color]

\* StepParticle without the early continue of lines 234-241: the loop body
\* runs for inactive slots too
StepParticle_NoSkip(p, oldMatrix, oldColor, technique, dt, counts, r) ==
  BoundsAndWrite(
    Commit(p, ApplyForce(p, length(p.position), technique, dt, counts, r), dt),
    oldMatrix, oldColor)

\* The body of the loop at lines 231-392 for slot p: the slot after it
\* (slot), and the matrix and color the loop leaves at the slot's index of
\* the instance buffers (matrix, color).  An inactive slot is left alone and
\* gets the hidden matrix.
StepParticle(p, oldMatrix, oldColor, technique, dt, counts, r) ==
  IF ~p.active
  THEN [slot |-> p, matrix |-> HiddenMatrix, color |-> oldColor]
  ELSE BoundsAndWrite(
         Commit(p, ApplyForce(p, length(p.position), technique, dt, counts, r), dt),
         oldMatrix, oldColor)

\* ------------------------------------------------------------------------
\* The list-based DynamicProjectiles (components/InfinityScene.tsx): the
\* callback given to prev.map at lines 234-417.  Its mode branches (lines
\* 253-402) repeat lines 251-372 of the pooled loop statement for statement,
\* with currentPos, currentVelocity, currentScale and active in place of
\* p.position, _velocity, p.scale and p.active; the checks before and behind
\* them are its own.
\* ------------------------------------------------------------------------
\* lines 239 and 411: isNaN of x, y or z
AnyNaN(v) == isNaN(v[1]) \/ isNaN(v[2]) \/ isNaN(v[3])

\* lines 245-251, 404 and 415: the object the callback returns, before the
\* cleanup of lines 407-413
ListCommit(p, s, dt) ==
  [active   |-> s.active,
   position |-> VAdd(p.position, s.moveVec),
   velocity |-> s.velocity,
   color    |-> p.color,
   scale    |-> s.scale,
   age      |-> FAdd(p.age, dt)]

\* lines 407-413
ListCleanup(q) ==
  [q EXCEPT !.active = /\ q.active
                       /\ ~FGt(length(q.position), 30 * ONE)
                       /\ ~FLt(q.scale, 10)
                       /\ ~AnyNaN(q.position)]

\* lines 234-417: the projectile the callback returns for p
ListStepParticle(p, technique, dt, counts, r) ==
  IF ~p.active THEN p
  ELSE IF AnyNaN(p.position) THEN [p EXCEPT !.active = FALSE]
  ELSE ListCleanup(
         ListCommit(p, ApplyForce(p, length(p.position), technique, dt, counts, r), dt))

\* ------------------------------------------------------------------------
\* Bounds of the model and input sets
\* ------------------------------------------------------------------------
\* pool capacity (1000 at line 25; the model runs the same code on a small pool)
MAX_PROJECTILES == 2
\* number of frames a behaviour runs
MaxFrames == 3
\* number of re-renders a behaviour has
MaxRenders == 1

\* the slots of the pool, numbered from 1
Slots == 1 .. MAX_PROJECTILES
NoSlot == 0

Techniques == {"NEUTRAL", "BLUE", "RED", "PURPLE"}
Themes == {"dark", "light"}
\* spawnRate prop: negative, off, 10 and 20 per second
SpawnRates == {0 - ONE, 0, 10 * ONE, 20 * ONE}
\* (minSpeed, maxSpeed) props: a fast setting and an unbounded maximum
SpeedSettings == {<<107 * ONE, 139 * ONE>>, <<8 * ONE, PInf>>}
\* frame deltas of the host clock: 0.05 s and 0.2 s
Deltas == {50, 200}
\* The four Math.random() draws of one spawn (lines 185, 191, 196, 209).  The
\* angle draw is given by (Math.cos(angle), Math.sin(angle)): angle 0 and
\* angle atan(4/3).
SpawnDraws ==
  { [angle |-> <<ONE, 0>>, rHeight |-> ONE \div 2, rSpeed |-> ONE \div 2, rInterval |-> 0],
    [angle |-> <<600, 800>>, rHeight |-> 0, rSpeed |-> 0, rInterval |-> 999] }
NoSpawnDraw == CHOOSE d \in SpawnDraws : d.rInterval = 0
\* the three Math.random() draws of a jitter vector
NoJitter == <<ONE \div 2, ONE \div 2, ONE \div 2>>
JitterDraws == {NoJitter, <<0, ONE \div 2, 999>>}

VARIABLES
  instances,          \* instances.current: the pool, slot index -> ProjectileInstance
  timeSinceLastSpawn, \* timeSinceLastSpawn.current
  nextSpawnInterval,  \* nextSpawnInterval.current
  meshMatrix,         \* meshRef.current.instanceMatrix, slot index -> transform
  trailMatrix1,       \* trailRef1.current.instanceMatrix
  trailMatrix2,       \* trailRef2.current.instanceMatrix
  meshColor,          \* meshRef.current.instanceColor, slot index -> color
  props,              \* the props of the last render
  frame,              \* number of frames processed
  renders,            \* number of re-renders
  last,               \* history: what the last step did
  probe,              \* one slot stepped on its own (the single-slot runs)
  projectiles         \* the projectiles state of the list-based DynamicProjectiles

vars == <<instances, timeSinceLastSpawn, nextSpawnInterval, meshMatrix,
          trailMatrix1, trailMatrix2, meshColor, props, frame, renders, last,
          probe, projectiles>>

AllProps ==
  [technique : Techniques, spawnRate : SpawnRates, speeds : SpeedSettings, theme : Themes]

\* lines 131-143: every slot inactive, zero vectors, white, scale 1, age 0
InitialInstance ==
  [active |-> FALSE, position |-> ZeroVec, velocity |-> ZeroVec,
   color |-> "#ffffff", scale |-> ONE, age |-> 0]

\* RenderInterval that schedules anew from the rate of every render
RenderInterval_Reschedules(interval, spawnRate) ==
  FDiv(ONE, IF spawnRate = 0 \/ isNaN(spawnRate) THEN ONE ELSE spawnRate)

\* lines 151-153, run by every render
RenderInterval(interval, spawnRate) ==
  IF interval = 0
  THEN FDiv(ONE, IF spawnRate = 0 \/ isNaN(spawnRate) THEN ONE ELSE spawnRate)
  ELSE interval

\* a fresh InstancedMesh: the identity transform in every instance
IdentityMatrix == Matrix(ZeroVec, ONE)

\* the value of probe in the runs of the whole pool
NoProbe == [kind |-> "none"]

Init ==
  /\ props \in AllProps
  /\ instances = [i \in Slots |-> InitialInstance]
  /\ timeSinceLastSpawn = 0
  /\ nextSpawnInterval = RenderInterval(0, props.spawnRate)
  /\ meshMatrix = [i \in Slots |-> IdentityMatrix]
  /\ trailMatrix1 = [i \in Slots |-> IdentityMatrix]
  /\ trailMatrix2 = [i \in Slots |-> IdentityMatrix]
  /\ meshColor = [i \in Slots |-> "unset"]
  /\ frame = 0
  /\ renders = 0
  /\ last = [kind |-> "init"]
  /\ probe = NoProbe
  /\ projectiles = <<>>

\* The props a re-render can bring: one control of the App changed (the
\* handlers of App.tsx at lines 93, 134, 229 and 248 each set one of theme,
\* technique, spawn rate and speed mode).
Changed(pr, q) ==
  Cardinality({f \in {"technique", "spawnRate", "speeds", "theme"} : pr[f] # q[f]})
Rerenders(pr) == {q \in AllProps : Changed(pr, q) = 1}

\* Render that builds the pool anew (the initialisation of lines 131-143
\* without its guard instances.current.length === 0)
Render_RebuildsPool(newProps) ==
  /\ renders < MaxRenders
  /\ 0 < frame /\ frame < MaxFrames
  /\ props' = newProps
  /\ nextSpawnInterval' = RenderInterval(nextSpawnInterval, newProps.spawnRate)
  /\ renders' = renders + 1
  /\ last' = [kind |-> "render"]
  /\ instances' = [i \in Slots |-> InitialInstance]
  /\ UNCHANGED <<timeSinceLastSpawn, meshMatrix, trailMatrix1,
                 trailMatrix2, meshColor, frame, probe, projectiles>>

\* A re-render between two frames with the props newProps.  The refs keep
\* their values; lines 151-153 run.
Render(newProps) ==
  /\ renders < MaxRenders
  /\ 0 < frame /\ frame < MaxFrames
  /\ props' = newProps
  /\ nextSpawnInterval' = RenderInterval(nextSpawnInterval, newProps.spawnRate)
  /\ renders' = renders + 1
  /\ last' = [kind |-> "render"]
  /\ UNCHANGED <<instances, timeSinceLastSpawn, meshMatrix, trailMatrix1,
                 trailMatrix2, meshColor, frame, probe, projectiles>>

\* ------------------------------------------------------------------------
\* The frame callback (lines 155-396)
\* ------------------------------------------------------------------------
\* SafeDelta without the clamp: the frame time as the host clock gives it
SafeDelta_Unclamped(delta) == delta

\* SafeDelta of a clock that stands still
SafeDelta_Stopped(delta) == 0

\* line 158
SafeDelta(delta) == FMin(delta, 100)

\* FindFreeSlot that falls back to the first slot when none is free
FindFreeSlot_Overwrites(pool) ==
  IF \E i \in Slots : ~pool[i].active
  THEN CHOOSE i \in Slots : ~pool[i].active /\ \A j \in Slots : j < i => pool[j].active
  ELSE 1

\* FindFreeSlot that takes the last inactive slot
FindFreeSlot_TakesLast(pool) ==
  IF \E i \in Slots : ~pool[i].active
  THEN CHOOSE i \in Slots : ~pool[i].active /\ \A j \in Slots : j > i => pool[j].active
  ELSE NoSlot

\* instances.current.find(p => !p.active): the first inactive slot
FindFreeSlot(pool) ==
  IF \E i \in Slots : ~pool[i].active
  THEN CHOOSE i \in Slots : ~pool[i].active /\ \A j \in Slots : j < i => pool[j].active
  ELSE NoSlot

spawnRadius == 14

\* SpawnInto without the reset of line 204: the age of the previous occupant
\* stays
SpawnInto_KeepsAge(slot, angle, rHeight, rSpeed, pr) ==
  LET position  == Vec(angle[1] * spawnRadius,
                       FMul(rHeight - ONE \div 2, 12 * ONE),
                       angle[2] * spawnRadius)
      direction == normalize(VSub(ZeroVec, position))
      speed     == FAdd(pr.speeds[1], FMul(rSpeed, FSub(pr.speeds[2], pr.speeds[1])))
  IN  [active   |-> TRUE,
       position |-> position,
       velocity |-> multiplyScalar(direction, speed),
       color    |-> IF pr.theme = "dark" THEN "#ffffff" ELSE "#1e293b",
       scale    |-> ONE,
       age      |-> slot.age]

\* lines 185-204: the slot as the spawner leaves it.  angle is the pair
\* (cos, sin) of the drawn angle, rHeight and rSpeed are Math.random() draws.
SpawnInto(slot, angle, rHeight, rSpeed, pr) ==
  LET position  == Vec(angle[1] * spawnRadius,
                       FMul(rHeight - ONE \div 2, 12 * ONE),
                       angle[2] * spawnRadius)
      direction == normalize(VSub(ZeroVec, position))
      speed     == FAdd(pr.speeds[1], FMul(rSpeed, FSub(pr.speeds[2], pr.speeds[1])))
  IN  [active   |-> TRUE,
       position |-> position,
       velocity |-> multiplyScalar(direction, speed),
       color    |-> IF pr.theme = "dark" THEN "#ffffff" ELSE "#1e293b",
       scale    |-> ONE,
       age      |-> 0]

\* lines 207-209
NextInterval(spawnRate, rInterval) ==
  LET baseInterval == FDiv(ONE, spawnRate)
      variation    == FMul(baseInterval, 300)
  IN  FAdd(baseInterval, FSub(FMul(FMul(rInterval, variation), 2 * ONE), variation))

\* Spawner with the reset of line 210 moved into the if (slot) block: a
\* dropped spawn keeps the accumulated time
Spawner_ResetsOnSpawn(pool, timer, interval, pr, dt, angle, rHeight, rSpeed, rInterval) ==
  IF FGt(pr.spawnRate, 0)
  THEN LET t1 == FAdd(timer, dt)
       IN  IF FGe(t1, interval)
           THEN LET slot == FindFreeSlot(pool)
                IN  [pool |-> IF slot # NoSlot
                              THEN [pool EXCEPT ![slot] =
                                      SpawnInto(pool[slot], angle, rHeight, rSpeed, pr)]
                              ELSE pool,
                     timer |-> IF slot # NoSlot THEN 0 ELSE t1,
                     interval |-> NextInterval(pr.spawnRate, rInterval),
                     attempted |-> TRUE,
                     slot |-> slot]
           ELSE [pool |-> pool, timer |-> t1, interval |-> interval,
                 attempted |-> FALSE, slot |-> NoSlot]
  ELSE [pool |-> pool, timer |-> timer, interval |-> interval,
        attempted |-> FALSE, slot |-> NoSlot]

\* Spawner with the accumulation of line 180 moved out of the if (spawnRate > 0)
\* block: the time accumulates while spawning is off
Spawner_AlwaysAccumulates(pool, timer, interval, pr, dt, angle, rHeight, rSpeed, rInterval) ==
  IF FGt(pr.spawnRate, 0)
  THEN LET t1 == FAdd(timer, dt)
       IN  IF FGe(t1, interval)
           THEN LET slot == FindFreeSlot(pool)
                IN  [pool |-> IF slot # NoSlot
                              THEN [pool EXCEPT ![slot] =
                                      SpawnInto(pool[slot], angle, rHeight, rSpeed, pr)]
                              ELSE pool,
                     timer |-> 0,
                     interval |-> NextInterval(pr.spawnRate, rInterval),
                     attempted |-> TRUE,
                     slot |-> slot]
           ELSE [pool |-> pool, timer |-> t1, interval |-> interval,
                 attempted |-> FALSE, slot |-> NoSlot]
  ELSE [pool |-> pool, timer |-> FAdd(timer, dt), interval |-> interval,
        attempted |-> FALSE, slot |-> NoSlot]

\* Spawner that reduces the accumulated time by the interval (line 210 as
\* timeSinceLastSpawn.current -= nextSpawnInterval.current)
Spawner_CarriesRemainder(pool, timer, interval, pr, dt, angle, rHeight, rSpeed, rInterval) ==
  IF FGt(pr.spawnRate, 0)
  THEN LET t1 == FAdd(timer, dt)
       IN  IF FGe(t1, interval)
           THEN LET slot == FindFreeSlot(pool)
                IN  [pool |-> IF slot # NoSlot
                              THEN [pool EXCEPT ![slot] =
                                      SpawnInto(pool[slot], angle, rHeight, rSpeed, pr)]
                              ELSE pool,
                     timer |-> FSub(t1, interval),
                     interval |-> NextInterval(pr.spawnRate, rInterval),
                     attempted |-> TRUE,
                     slot |-> slot]
           ELSE [pool |-> pool, timer |-> t1, interval |-> interval,
                 attempted |-> FALSE, slot |-> NoSlot]
  ELSE [pool |-> pool, timer |-> timer, interval |-> interval,
        attempted |-> FALSE, slot |-> NoSlot]

\* lines 179-212: pool, timer and interval after the spawning block
Spawner(pool, timer, interval, pr, dt, angle, rHeight, rSpeed, rInterval) ==
  IF FGt(pr.spawnRate, 0)
  THEN LET t1 == FAdd(timer, dt)
       IN  IF FGe(t1, interval)
           THEN LET slot == FindFreeSlot(pool)
                IN  [pool |-> IF slot # NoSlot
                              THEN [pool EXCEPT ![slot] =
                                      SpawnInto(pool[slot], angle, rHeight, rSpeed, pr)]
                              ELSE pool,
                     timer |-> 0,
                     interval |-> NextInterval(pr.spawnRate, rInterval),
                     attempted |-> TRUE,
                     slot |-> slot]
           ELSE [pool |-> pool, timer |-> t1, interval |-> interval,
                 attempted |-> FALSE, slot |-> NoSlot]
  ELSE [pool |-> pool, timer |-> timer, interval |-> interval,
        attempted |-> FALSE, slot |-> NoSlot]

\* lines 215-228: the counting pass
ActiveCount(pool) == Cardinality({i \in Slots : pool[i].active})
TrappedCount(pool, technique) ==
  Cardinality({i \in Slots : pool[i].active /\ technique = "BLUE"
                             /\ FLt(lengthSq(pool[i].position), 6250)})
CountingPass(pool, technique) ==
  [activeCount |-> ActiveCount(pool),
   trappedCount |-> TrappedCount(pool, technique),
   isCrowded |-> ActiveCount(pool) > 40]

\* what the loop has left so far, and what StepParticle leaves for one more slot
Push(acc, w) ==
  [instances |-> Append(acc.instances, w.slot),
   matrix    |-> Append(acc.matrix, w.matrix),
   color     |-> Append(acc.color, w.color)]

\* lines 231-392: the update loop over the pool the spawner left, up to and
\* including slot n; jit gives each slot the draws its force model consumes.
\* The result is the pool and the main mesh's matrix and color buffers.
RECURSIVE PhysicsLoop(_, _, _, _, _, _, _, _)
PhysicsLoop(n, pool, matrix, color, technique, dt, counts, jit) ==
  IF n = 0 THEN [instances |-> << >>, matrix |-> << >>, color |-> << >>]
  ELSE Push(PhysicsLoop(n - 1, pool, matrix, color, technique, dt, counts, jit),
            StepParticle(pool[n], matrix[n], color[n], technique, dt, counts, jit[n]))

\* what the update loop left, with the counts it ran with
Counted(loop, counts) ==
  [instances |-> loop.instances, matrix |-> loop.matrix, color |-> loop.color,
   counts |-> counts]

\* lines 231-392 with the counts of lines 215-228
PhysicsWith(pool, matrix, color, technique, dt, counts, jit) ==
  Counted(PhysicsLoop(MAX_PROJECTILES, pool, matrix, color, technique, dt, counts, jit),
          counts)

\* lines 215-392
PhysicsPass(pool, matrix, color, technique, dt, jit) ==
  PhysicsWith(pool, matrix, color, technique, dt, CountingPass(pool, technique), jit)

\* line 181 holds in this frame
WillAttempt(delta) ==
  /\ FGt(props.spawnRate, 0)
  /\ FGe(FAdd(timeSinceLastSpawn, SafeDelta(delta)), nextSpawnInterval)

\* The draws a frame reads: those of the spawning block if it attempts a
\* spawn, and those of the force model of each slot whose branch draws.
\* Draws the frame does not read are fixed, so that every successor is
\* generated once.
SpawnChoices(delta) == IF WillAttempt(delta) THEN SpawnDraws ELSE {NoSpawnDraw}
JitterChoices(pool, technique) ==
  {jit \in [Slots -> JitterDraws] :
     \A i \in Slots : ~ConsumesDraws(pool[i], technique) => jit[i] = NoJitter}

\* The trail shift (lines 163-165) copies the buffers as they are on entry;
\* the trail meshes have no instanceColor, so lines 171-176 do nothing.
\*
\* Store with the trail shift moved behind the update pass
Store_ShiftsAfterUpdate(delta, sp, jit, after) ==
  /\ instances' = after.instances
  /\ timeSinceLastSpawn' = sp.timer
  /\ nextSpawnInterval' = sp.interval
  /\ trailMatrix2' = meshMatrix
  /\ trailMatrix1' = after.matrix
  /\ meshMatrix' = after.matrix
  /\ meshColor' = after.color
  /\ last' = [kind |-> "frame", safeDelta |-> SafeDelta(delta),
              before |-> instances, timerBefore |-> timeSinceLastSpawn,
              intervalBefore |-> nextSpawnInterval,
              attempted |-> sp.attempted, slot |-> sp.slot, spawned |-> sp.pool,
              delta |-> delta, jit |-> jit, counts |-> after.counts,
              mainBefore |-> meshMatrix, trailBefore |-> trailMatrix1]

\* The state the callback leaves, given the outcome sp of the spawning block,
\* the draws jit and the outcome after of the update pass.
Store(delta, sp, jit, after) ==
  /\ instances' = after.instances
  /\ timeSinceLastSpawn' = sp.timer
  /\ nextSpawnInterval' = sp.interval
  /\ trailMatrix2' = trailMatrix1
  /\ trailMatrix1' = meshMatrix
  /\ meshMatrix' = after.matrix
  /\ meshColor' = after.color
  /\ last' = [kind |-> "frame", safeDelta |-> SafeDelta(delta),
              before |-> instances, timerBefore |-> timeSinceLastSpawn,
              intervalBefore |-> nextSpawnInterval,
              attempted |-> sp.attempted, slot |-> sp.slot, spawned |-> sp.pool,
              delta |-> delta, jit |-> jit, counts |-> after.counts,
              mainBefore |-> meshMatrix, trailBefore |-> trailMatrix1]

\* FrameWith with the counting and update passes run on the pool as it was on
\* entry: the slot the spawner took is admitted behind them
FrameWith_SpawnsLast(delta, sp) ==
  \E jit \in JitterChoices(instances, props.technique) :
    Store(delta, sp, jit,
          [PhysicsPass(instances, meshMatrix, meshColor, props.technique,
                       SafeDelta(delta), jit)
             EXCEPT !.instances =
               IF sp.slot # NoSlot THEN [@ EXCEPT ![sp.slot] = sp.pool[sp.slot]] ELSE @])

\* The frame after its spawning block left sp
FrameWith(delta, sp) ==
  \E jit \in JitterChoices(sp.pool, props.technique) :
    Store(delta, sp, jit,
          PhysicsPass(sp.pool, meshMatrix, meshColor, props.technique,
                      SafeDelta(delta), jit))

\* One run of the frame callback (lines 155-396) with frame time delta
Frame(delta) ==
  /\ frame < MaxFrames
  /\ \E sd \in SpawnChoices(delta) :
       FrameWith(delta, Spawner(instances, timeSinceLastSpawn, nextSpawnInterval, props,
                                SafeDelta(delta), sd.angle, sd.rHeight, sd.rSpeed,
                                sd.rInterval))
  /\ frame' = frame + 1
  /\ UNCHANGED <<props, renders, probe, projectiles>>

Next ==
  \/ \E newProps \in Rerenders(props) : Render(newProps)
  \/ \E delta \in Deltas : Frame(delta)

Spec == Init /\ [][Next]_vars

\* ------------------------------------------------------------------------
\* Unending runs: the host calls the frame callback on every animation frame,
\* with no bound on the number of frames, and the props stay as they are.
\* The rate is positive and finite, the speeds are finite and the mode is
\* RED, in which every particle leaves the scene after finitely many frames.
\* ------------------------------------------------------------------------
LiveProps ==
  {pr \in AllProps : /\ FGt(pr.spawnRate, 0) /\ isFinite(pr.spawnRate)
                     /\ isFinite(pr.speeds[2])
                     /\ pr.technique = "RED"
                     /\ pr.theme = "dark"}

InitLive ==
  /\ props \in LiveProps
  /\ instances = [i \in Slots |-> InitialInstance]
  /\ timeSinceLastSpawn = 0
  /\ nextSpawnInterval = RenderInterval(0, props.spawnRate)
  /\ meshMatrix = [i \in Slots |-> IdentityMatrix]
  /\ trailMatrix1 = [i \in Slots |-> IdentityMatrix]
  /\ trailMatrix2 = [i \in Slots |-> IdentityMatrix]
  /\ meshColor = [i \in Slots |-> "unset"]
  /\ frame = 0
  /\ renders = 0
  /\ last = [kind |-> "init"]
  /\ probe = NoProbe
  /\ projectiles = <<>>

\* the host has called the callback once more; frame holds the parity of the
\* number of frames
FrameCalled == frame' = 1 - frame

\* One run of the frame callback (lines 155-396)
LiveFrame(delta) ==
  /\ FrameCalled
  /\ \E sd \in SpawnChoices(delta) :
       FrameWith(delta, Spawner(instances, timeSinceLastSpawn, nextSpawnInterval, props,
                                SafeDelta(delta), sd.angle, sd.rHeight, sd.rSpeed,
                                sd.rInterval))
  /\ UNCHANGED <<props, renders, probe, projectiles>>

NextLive == \E delta \in Deltas : LiveFrame(delta)

\* The host keeps calling the callback (requestAnimationFrame): a frame is
\* always possible, and every step of NextLive is a FrameCalled step that
\* changes frame, so the fairness condition is that of NextLive.
SpecLive == InitLive /\ [][NextLive]_vars /\ WF_frame(FrameCalled)

\* ------------------------------------------------------------------------
\* Single-slot runs: the loop body of lines 231-392 applied to one slot, with
\* the counts of the rest of the pool given.  The slot starts on a line
\* through the origin (a particle is spawned moving towards the origin and
\* the forces of NEUTRAL, BLUE and RED act along that line).
\* ------------------------------------------------------------------------
\* number of steps a single-slot run takes
MaxSteps == 2
\* largest trapped count of a single-slot run
MaxTrapped == 60

\* start positions at distances 1, 1.35, 1.6, 2.4, 3.5, 3.6, 4.5 and 15 from
\* the origin
ProbePositions ==
  {Vec(600, 800, 0), Vec(1350, 0, 0), Vec(1600, 0, 0), Vec(0, 2400, 0),
   Vec(3500, 0, 0), Vec(3600, 0, 0), Vec(4500, 0, 0), Vec(0, 0, 15000)}
\* speeds towards the origin (a negative speed leads away from it)
ProbeSpeeds == {0 - 45 * ONE, 8 * ONE, 45 * ONE, 123 * ONE}

\* a particle at position moving towards the origin with speed
ProbeParticle(position, speed) ==
  [active |-> TRUE, position |-> position,
   velocity |-> multiplyScalar(VNegate(normalize(position)), speed),
   color |-> "#ffffff", scale |-> ONE, age |-> 0]

\* lines 215-228 for a pool with activeCount active slots, trappedCount of
\* them within 2.5 of the origin
ProbeCounts(activeCount, trappedCount) ==
  [activeCount |-> activeCount, trappedCount |-> trappedCount,
   isCrowded |-> activeCount > 40]

\* the counts a pool can give in a mode: slots are trapped in BLUE only
CountsOf(technique) ==
  IF technique = "BLUE"
  THEN {ProbeCounts(IF n = 0 THEN 1 ELSE n, n) : n \in 0 .. MaxTrapped}
  ELSE {ProbeCounts(1, 0), ProbeCounts(41, 0)}

ProbeStart(technique, counts, particle) ==
  [kind |-> "slot", technique |-> technique, counts |-> counts, p |-> particle,
   before |-> particle, dt |-> 0, r |-> NoJitter, matrix |-> IdentityMatrix,
   list |-> particle, steps |-> 0]

InitP ==
  /\ \E technique \in Techniques :
       \E counts \in CountsOf(technique) :
         \E position \in ProbePositions :
           \E speed \in ProbeSpeeds :
             probe = ProbeStart(technique, counts, ProbeParticle(position, speed))
  /\ props = [technique |-> probe.technique, spawnRate |-> 0,
              speeds |-> <<8 * ONE, PInf>>, theme |-> "dark"]
  /\ instances = [i \in Slots |-> InitialInstance]
  /\ timeSinceLastSpawn = 0
  /\ nextSpawnInterval = RenderInterval(0, props.spawnRate)
  /\ meshMatrix = [i \in Slots |-> IdentityMatrix]
  /\ trailMatrix1 = [i \in Slots |-> IdentityMatrix]
  /\ trailMatrix2 = [i \in Slots |-> IdentityMatrix]
  /\ meshColor = [i \in Slots |-> "unset"]
  /\ frame = 0
  /\ renders = 0
  /\ last = [kind |-> "init"]
  /\ projectiles = <<>>

\* the single-slot run after a step that left the slot and matrix of w; list
\* is what the list-based callback returns for the same slot, counts and draws
ProbeAfter(pb, dt, r, w) ==
  [pb EXCEPT !.p = w.slot, !.before = pb.p, !.dt = dt, !.r = r,
             !.matrix = w.matrix,
             !.list = ListStepParticle(pb.p, pb.technique, dt, pb.counts, r),
             !.steps = pb.steps + 1]

\* One frame's loop body for the slot: frame time delta, jitter draws r
ProbeStep(delta, r) ==
  /\ probe.kind = "slot"
  /\ probe.steps < MaxSteps
  /\ probe.p.active
  /\ ~ConsumesDraws(probe.p, probe.technique) => r = NoJitter
  /\ probe' = ProbeAfter(probe, SafeDelta(delta), r,
                         StepParticle(probe.p, probe.matrix, probe.p.color,
                                      probe.technique, SafeDelta(delta),
                                      probe.counts, r))
  /\ UNCHANGED <<instances, timeSinceLastSpawn, nextSpawnInterval, meshMatrix,
                 trailMatrix1, trailMatrix2, meshColor, props, frame, renders, last,
                 projectiles>>

NextP == \E delta \in Deltas : \E r \in JitterDraws : ProbeStep(delta, r)

SpecP == InitP /\ [][NextP]_vars

\* ------------------------------------------------------------------------
\* The list-based DynamicProjectiles as a state machine (InfinityScene.tsx
\* lines 146-419): projectiles is the React state the two setProjectiles
\* updaters of a frame are applied to, in the order they are queued;
\* timeSinceLastSpawn and nextSpawnInterval are its two refs (lines 164-165).
\* The id of a projectile (line 201) is read nowhere and is left out.
\* ------------------------------------------------------------------------
ListCap == 120
listRadius == 14

\* frames of a run, and the frames at its start whose frame time and draws
\* are free; behind them the frame time is 0.016 s and the draws are fixed
MaxListFrames == 123
ListFreeFrames == 1

\* frame deltas: 0.016 s and 0.1 s
ListDeltas == {16, 100}
SteadyDelta == CHOOSE d \in ListDeltas : \A e \in ListDeltas : d <= e

\* props: 100 spawns per second and the slow speed setting of App.tsx, in
\* the dark theme
ListProps ==
  [technique : Techniques, spawnRate : {100 * ONE}, speeds : {<<2 * ONE, 5 * ONE>>},
   theme : {"dark"}]

\* lines 182-195 and 200-208: the projectile a spawn appends
ListProjectile(angle, rHeight, rSpeed, pr) ==
  LET drawn     == Vec(angle[1] * listRadius,
                       FMul(rHeight - ONE \div 2, 12 * ONE),
                       angle[2] * listRadius)
      startPos  == IF isNaN(drawn[1]) THEN Vec(listRadius * ONE, 0, 0) ELSE drawn
      direction == normalize(VSub(ZeroVec, startPos))
      speed     == FAdd(pr.speeds[1], FMul(rSpeed, FSub(pr.speeds[2], pr.speeds[1])))
  IN  [active   |-> TRUE,
       position |-> startPos,
       velocity |-> multiplyScalar(direction, speed),
       color    |-> IF pr.theme = "dark" THEN "#fbbf24" ELSE "#ef4444",
       scale    |-> ONE,
       age      |-> 0]

\* lines 197-209: the updater of a spawn
ListAppend(prev, projectile) ==
  IF Len(prev) > ListCap THEN prev ELSE Append(prev, projectile)

\* lines 177-217: list, timer and interval after the spawning block
ListSpawner(prev, timer, interval, pr, dt, angle, rHeight, rSpeed, rInterval) ==
  IF FGt(pr.spawnRate, 0)
  THEN LET t1 == FAdd(timer, dt)
       IN  IF FGe(t1, interval)
           THEN [list |-> ListAppend(prev, ListProjectile(angle, rHeight, rSpeed, pr)),
                 timer |-> 0,
                 interval |-> NextInterval(pr.spawnRate, rInterval),
                 attempted |-> TRUE]
           ELSE [list |-> prev, timer |-> t1, interval |-> interval, attempted |-> FALSE]
  ELSE [list |-> prev, timer |-> timer, interval |-> interval, attempted |-> FALSE]

\* lines 222-232
ListCounts(prev, technique) ==
  [trappedCount |->
     IF technique = "BLUE"
     THEN Cardinality({i \in 1 .. Len(prev) :
                         prev[i].active /\ FLt(lengthSq(prev[i].position), 6250)})
     ELSE 0,
   isCrowded |-> Len(prev) > 40]

\* line 234: prev.map over the first n projectiles
RECURSIVE ListMap(_, _, _, _, _, _)
ListMap(prev, n, technique, dt, counts, r) ==
  IF n = 0 THEN <<>>
  ELSE Append(ListMap(prev, n - 1, technique, dt, counts, r),
              ListStepParticle(prev[n], technique, dt, counts, r))

ListActive(p) == p.active

\* lines 220-418: the updater of the physics update; every projectile of the
\* frame reads the draws r
ListPhysics(prev, technique, dt, r) ==
  SelectSeq(ListMap(prev, Len(prev), technique, dt, ListCounts(prev, technique), r),
            ListActive)

InitL ==
  /\ props \in ListProps
  /\ projectiles = <<>>
  /\ timeSinceLastSpawn = 0
  /\ nextSpawnInterval = RenderInterval(0, props.spawnRate)
  /\ instances = [i \in Slots |-> InitialInstance]
  /\ meshMatrix = [i \in Slots |-> IdentityMatrix]
  /\ trailMatrix1 = [i \in Slots |-> IdentityMatrix]
  /\ trailMatrix2 = [i \in Slots |-> IdentityMatrix]
  /\ meshColor = [i \in Slots |-> "unset"]
  /\ frame = 0
  /\ renders = 0
  /\ last = [kind |-> "init"]
  /\ probe = NoProbe

\* the state the callback leaves, given the outcome sp of the spawning block
ListStore(sp, dt, r) ==
  /\ projectiles' = ListPhysics(sp.list, props.technique, dt, r)
  /\ timeSinceLastSpawn' = sp.timer
  /\ nextSpawnInterval' = sp.interval

\* One run of the frame callback (lines 172-419) with frame time delta
ListFrame(delta) ==
  /\ frame < MaxListFrames
  /\ frame >= ListFreeFrames => delta = SteadyDelta
  /\ \E sd \in (IF frame < ListFreeFrames THEN SpawnDraws ELSE {NoSpawnDraw}) :
       \E r \in (IF frame < ListFreeFrames THEN JitterDraws ELSE {NoJitter}) :
         ListStore(ListSpawner(projectiles, timeSinceLastSpawn, nextSpawnInterval, props,
                               SafeDelta(delta), sd.angle, sd.rHeight, sd.rSpeed,
                               sd.rInterval),
                   SafeDelta(delta), r)
  /\ frame' = frame + 1
  /\ UNCHANGED <<instances, meshMatrix, trailMatrix1, trailMatrix2, meshColor, props,
                 renders, last, probe>>

NextL == \E delta \in ListDeltas : ListFrame(delta)

SpecL == InitL /\ [][NextL]_vars

\* ------------------------------------------------------------------------
\* Properties
\* ------------------------------------------------------------------------
\* the last step was a frame: last holds the pool, timer and interval on its
\* entry (before, timerBefore, intervalBefore) and the pool as its spawning
\* block left it (spawned)
AfterFrame == last.kind = "frame"

\* line 181 held in the last frame
SpawnDue ==
  /\ AfterFrame
  /\ FGt(props.spawnRate, 0)
  /\ FGe(FAdd(last.timerBefore, last.safeDelta), last.intervalBefore)

PoolFull(pool) == \A i \in Slots : pool[i].active
PoolEmpty(pool) == \A i \in Slots : ~pool[i].active
NonFinite(v) == \E k \in 1 .. 3 : ~isFinite(v[k])

\* C1: the pool keeps its MAX_PROJECTILES slots, so the number of active
\* slots never exceeds MAX_PROJECTILES, and a spawn attempted while every
\* slot is active changes no slot.
C1_PoolBounded ==
  /\ DOMAIN instances = Slots
  /\ Cardinality({i \in DOMAIN instances : instances[i].active}) <= MAX_PROJECTILES
  /\ (SpawnDue /\ PoolFull(last.before)) => last.spawned = last.before

\* a spawn was due in a frame that began with every slot active
C1_FullPoolAttempt == SpawnDue /\ PoolFull(last.before) /\ last.attempted

\* C2: at the end of every frame, the main buffer holds a zero-scale
\* transform at the index of every inactive slot, also of a slot the frame
\* itself deactivated.
C2_InactiveHidden ==
  frame > 0 => \A i \in Slots : ~instances[i].active => meshMatrix[i].scale = 0

\* C3: at the end of every frame, a particle with a non-finite component in
\* its position (x, y or z) is inactive, and no non-finite transform is in
\* the main buffer.
C3_NonFiniteRemoved ==
  frame > 0 =>
    \A i \in Slots : /\ NonFinite(instances[i].position) => ~instances[i].active
                     /\ ~NonFinite(meshMatrix[i].position)

\* C4: at the end of every frame, every active particle is at distance at
\* most 30 from the origin and has scale at least 0.01.
C4_ActiveInBounds ==
  frame > 0 =>
    \A i \in Slots : instances[i].active =>
                       /\ FGe(30 * ONE, length(instances[i].position))
                       /\ FGe(instances[i].scale, 10)

\* C5: in every reachable state, through frames and mode switches, every
\* active particle has 0 < scale <= 1.
C5_ScaleInUnitInterval ==
  \A i \in Slots : instances[i].active =>
                     /\ FGt(instances[i].scale, 0)
                     /\ FGe(ONE, instances[i].scale)

\* after a switch to PURPLE an active particle has shrunk
C5_ShrunkAfterSwitch ==
  /\ renders > 0
  /\ props.technique = "PURPLE"
  /\ \E i \in Slots : instances[i].active /\ FLt(instances[i].scale, ONE)

\* C6: a frame in which spawnRate > 0 and the accumulated time reaches the
\* scheduled interval leaves the timer at 0 and an interval in
\* [0.7 / spawnRate, 1.3 / spawnRate], whether or not a slot was free.
C6_TimerReset ==
  SpawnDue => /\ timeSinceLastSpawn = 0
              /\ FGe(nextSpawnInterval, FDiv(700, props.spawnRate))
              /\ FGe(FDiv(1300, props.spawnRate), nextSpawnInterval)

\* a due spawn found no free slot, and the timer is back at 0
C6_DroppedSpawn == SpawnDue /\ last.slot = NoSlot /\ timeSinceLastSpawn = 0

\* C7: a frame with spawnRate <= 0 leaves the accumulated time and the
\* scheduled interval as they were and activates no slot.
C7_SpawnerIdle ==
  (AfterFrame /\ FGe(0, props.spawnRate)) =>
    /\ timeSinceLastSpawn = last.timerBefore
    /\ nextSpawnInterval = last.intervalBefore
    /\ last.spawned = last.before
    /\ \A i \in Slots : instances[i].active => last.before[i].active

\* a frame ran with spawning off while time had accumulated
C7_IdleWithTimeAccumulated ==
  AfterFrame /\ FGe(0, props.spawnRate) /\ FGt(last.timerBefore, 0)

\* C8: a frame that begins with no active slot and spawnRate = 0 leaves the
\* pool as it was, and the update pass changes no field of a slot that is
\* inactive when the pass reaches it.
C8_InactiveUntouched ==
  AfterFrame =>
    /\ \A i \in Slots : ~last.spawned[i].active => instances[i] = last.spawned[i]
    /\ (props.spawnRate = 0 /\ PoolEmpty(last.before)) => instances = last.before

\* a frame ran with spawnRate = 0 on a pool of inactive slots, one of which
\* still held the values of a former particle
C8_IdleFrameOverLeftovers ==
  /\ AfterFrame
  /\ props.spawnRate = 0
  /\ PoolEmpty(last.before)
  /\ \E i \in Slots : last.before[i] # InitialInstance

\* the slots a spawn can leave under the current props: none of their fields
\* depends on the slot's former values
FreshSpawns ==
  {SpawnInto(InitialInstance, d.angle, d.rHeight, d.rSpeed, props) : d \in SpawnDraws}

\* C9: the slot a spawn takes is, when the update pass begins, active with
\* scale 1 and age 0, and its position, velocity, color, scale and age are
\* those of a fresh spawn: nothing of the former occupant is left.
C9_SpawnOverwrites ==
  (AfterFrame /\ last.slot # NoSlot) =>
    /\ last.spawned[last.slot].active
    /\ last.spawned[last.slot].scale = ONE
    /\ last.spawned[last.slot].age = 0
    /\ last.spawned[last.slot] \in FreshSpawns

\* a spawn took a slot that a former particle had left
C9_SlotReused ==
  AfterFrame /\ last.slot # NoSlot /\ FGt(last.before[last.slot].age, 0)

\* |a - b| <= tol for finite a and b
Near(a, b, tol) == isFinite(a) /\ isFinite(b) /\ Abs(a - b) <= tol

\* particle p is at distance exactly coreRadius + 0.2 and moves radially inward
AtClampRadiusInward(p) ==
  /\ p.active
  /\ length(p.position) = coreRadiusRed + 200
  /\ crossVectors(p.position, p.velocity) = ZeroVec
  /\ FLt(VDot(p.position, p.velocity), 0)

\* C10: in RED, a particle that the update pass finds at distance exactly
\* coreRadius + 0.2 = 1.7, moving radially inward with speed v, leaves the
\* frame with an outward velocity of speed 0.8 v and at distance 1.7 (within
\* 0.01 of either).
C10_BounceAtClampRadius ==
  (AfterFrame /\ props.technique = "RED") =>
    \A i \in Slots :
      AtClampRadiusInward(last.spawned[i]) =>
        /\ FGt(VDot(instances[i].position, instances[i].velocity), 0)
        /\ Near(length(instances[i].velocity),
                FMul(800, length(last.spawned[i].velocity)), ONE \div 100)
        /\ Near(length(instances[i].position), coreRadiusRed + 200, ONE \div 100)

\* a particle that the update pass of the last frame found in RED closer
\* than coreRadius + 0.2 to the origin
RedInsideClamp(i) ==
  /\ AfterFrame
  /\ props.technique = "RED"
  /\ last.spawned[i].active
  /\ FLt(length(last.spawned[i].position), coreRadiusRed + 200)

\* u is a positive multiple of v (within 0.01 per component of the unit vectors)
SameDirection(u, v) ==
  /\ ~NonFinite(u) /\ ~NonFinite(v)
  /\ \A k \in 1 .. 3 : Near(normalize(u)[k], normalize(v)[k], ONE \div 100)

\* the velocity _velocity holds when line 340 reads its length
RedSpeedAtBounce(p, dt) ==
  length(RedAccelerate(RedEnter(Start(p, dt), RedDirOut(p, length(p.position))),
                       length(p.position), dt).velocity)

\* C11: in RED, a particle that starts the step closer than 1.7 to the origin
\* ends it on the sphere of radius 1.7 along its outward direction, and if it
\* was approaching, with a velocity along the outward direction of 0.8 times
\* the speed it had when the bounce was applied (within 0.01).
C11_ClampOntoSphere ==
  \A i \in Slots :
    RedInsideClamp(i) =>
      /\ Near(length(instances[i].position), coreRadiusRed + 200, ONE \div 100)
      /\ SameDirection(instances[i].position, last.spawned[i].position)
      /\ FLt(VDot(last.spawned[i].velocity, last.spawned[i].position), 0) =>
           /\ SameDirection(instances[i].velocity, last.spawned[i].position)
           /\ Near(length(instances[i].velocity),
                   FMul(800, RedSpeedAtBounce(last.spawned[i], last.safeDelta)),
                   ONE \div 100)

\* C12: in BLUE, a particle within coreRadius + 1.0 of the origin whose step
\* drew a non-zero jitter is displaced by more than velocity x delta: its
\* position depends on the draws.
C12_JitterMoves ==
  (AfterFrame /\ props.technique = "BLUE") =>
    \A i \in Slots :
      ( /\ last.spawned[i].active
        /\ FLt(length(last.spawned[i].position), coreRadiusBlue + ONE)
        /\ last.jit[i] # NoJitter ) =>
        instances[i].position #
          VAdd(last.spawned[i].position,
               multiplyScalar(instances[i].velocity, last.safeDelta))

\* C14: the slot a spawn took is counted by the counting pass of the same
\* frame, stepped by the force model of the same frame (its age at the end of
\* the frame is the clamped delta, its position is no longer the spawn
\* position), and then written to the buffer if it is still active.
C14_SpawnSteppedSameFrame ==
  (AfterFrame /\ last.slot # NoSlot) =>
    /\ last.counts.activeCount = Cardinality({i \in Slots : last.before[i].active}) + 1
    /\ last.counts.trappedCount =
         Cardinality({i \in Slots : /\ last.spawned[i].active
                                    /\ props.technique = "BLUE"
                                    /\ FLt(lengthSq(last.spawned[i].position), 6250)})
    /\ instances[last.slot].age = last.safeDelta
    /\ instances[last.slot].position # last.spawned[last.slot].position
    /\ instances[last.slot].active =>
         meshMatrix[last.slot] = Matrix(instances[last.slot].position,
                                        instances[last.slot].scale)

\* a spawn joined a pool that already held an active particle
C14_SpawnBesideActive ==
  /\ AfterFrame /\ last.slot # NoSlot
  /\ \E i \in Slots : last.before[i].active
  /\ instances[last.slot].active

\* C15: after a frame the first trail buffer is the main buffer as the frame
\* found it (the main buffer at the end of the frame before), and the second
\* trail buffer is the first trail buffer as the frame found it (the main
\* buffer at the end of the frame before that one).
C15_TrailsLag ==
  AfterFrame => /\ trailMatrix1 = last.mainBefore
                /\ trailMatrix2 = last.trailBefore

\* two frames or more have run and the three buffers differ
C15_ThreeGenerations ==
  /\ AfterFrame /\ frame >= 2
  /\ trailMatrix1 # meshMatrix
  /\ trailMatrix2 # trailMatrix1

\* C16: the position of a new particle is at distance 14 from the origin.
C16_SpawnOnSphere ==
  (AfterFrame /\ last.slot # NoSlot) =>
    length(last.spawned[last.slot].position) = spawnRadius * ONE

\* min(delta, 0.1) of the frame time of the last frame
ClampedDelta == IF last.delta < ONE \div 10 THEN last.delta ELSE ONE \div 10

\* C17: the frame uses the time step min(delta, 0.1): the spawn timer is 0 or
\* its old value plus that step, and the age of every slot the update pass
\* found active grew by that step.
C17_ClampedStep ==
  AfterFrame =>
    /\ last.safeDelta = ClampedDelta
    /\ FGt(props.spawnRate, 0) =>
         timeSinceLastSpawn \in {0, last.timerBefore + ClampedDelta}
    /\ \A i \in Slots :
         last.spawned[i].active => instances[i].age = last.spawned[i].age + ClampedDelta

\* a frame with a frame time above 0.1 advanced the timer and aged a particle
C17_LongFrame ==
  /\ AfterFrame /\ last.delta > ONE \div 10
  /\ timeSinceLastSpawn > last.timerBefore
  /\ \E i \in Slots : last.spawned[i].active /\ last.before[i].active

\* C18: a spawn attempt takes the inactive slot of the lowest index and
\* changes no other slot; it fails exactly when no slot is inactive.
C18_FirstFreeSlot ==
  (AfterFrame /\ last.attempted) =>
    IF PoolFull(last.before)
    THEN last.slot = NoSlot /\ last.spawned = last.before
    ELSE /\ last.slot \in Slots
         /\ ~last.before[last.slot].active
         /\ \A j \in Slots : j < last.slot => last.before[j].active
         /\ last.spawned[last.slot].active
         /\ \A j \in Slots : j # last.slot => last.spawned[j] = last.before[j]

\* a spawn had more than one free slot to choose from
C18_SeveralFree ==
  /\ AfterFrame /\ last.attempted
  /\ Cardinality({i \in Slots : ~last.before[i].active}) > 1
  /\ last.slot # NoSlot

\* C19: in NEUTRAL, a particle that the update pass finds farther than the
\* stopping radius 1.35 from the origin does not end the frame closer than
\* 1.35 to it.
C19_StaysOutside ==
  (AfterFrame /\ props.technique = "NEUTRAL") =>
    \A i \in Slots :
      (last.spawned[i].active /\ FGt(length(last.spawned[i].position), stoppingRadius))
        => ~FLt(length(instances[i].position), stoppingRadius)

\* the single slot has been stepped in mode technique
ProbeStepped(technique) ==
  probe.kind = "slot" /\ probe.steps > 0 /\ probe.technique = technique

\* position lies on a coordinate axis at distance exactly 1.35 from the origin
AtStoppingRadius(position) ==
  \E k \in 1 .. 3 :
    /\ Abs(position[k]) = stoppingRadius
    /\ \A j \in 1 .. 3 : j # k => position[j] = 0

\* C13: in NEUTRAL, a particle that starts a step at distance exactly 1.35
\* keeps its velocity and is displaced by 0.0001 x velocity x clamped delta,
\* with no jitter.
C13_FloorAtStoppingRadius ==
  (ProbeStepped("NEUTRAL") /\ AtStoppingRadius(probe.before.position)) =>
    /\ probe.p.velocity = probe.before.velocity
    /\ probe.p.position =
         VAdd(probe.before.position,
              divideScalar(multiplyScalar(probe.before.velocity, probe.dt),
                           10 * ONE * ONE))

\* a particle at distance 1.35 was stepped and moved by the floor
C13_MovedByFloor ==
  /\ ProbeStepped("NEUTRAL")
  /\ AtStoppingRadius(probe.before.position)
  /\ probe.p.position # probe.before.position

\* max(0.8, 0.99 - 0.005 min(n - 8, 50)), in thousandths
ExpectedShrink(n) ==
  IF n - 8 >= 50 THEN 800
  ELSE IF 990 - 5 * (n - 8) < 800 THEN 800 ELSE 990 - 5 * (n - 8)

\* C20: in BLUE the scale of a stepped particle is multiplied by
\* max(0.8, 0.99 - 0.005 min(trappedCount - 8, 50)) if trappedCount > 8 and
\* the particle is within 2.5 of the origin, and is unchanged otherwise; the
\* factor is between 0.8 and 0.985 and does not grow with the trapped count.
C20_DensityShrink ==
  ProbeStepped("BLUE") =>
    IF probe.counts.trappedCount > 8 /\ FLt(length(probe.before.position), 2500)
    THEN /\ probe.p.scale =
              FMul(probe.before.scale, ExpectedShrink(probe.counts.trappedCount))
         /\ probe.p.scale >= FMul(probe.before.scale, 800)
         /\ probe.p.scale <= FMul(probe.before.scale, 985)
         /\ probe.counts.trappedCount > 9 =>
              probe.p.scale <=
                FMul(probe.before.scale, ShrinkFactor(probe.counts.trappedCount - 1))
    ELSE probe.p.scale = probe.before.scale

\* a particle within 2.5 was shrunk by the floor factor 0.8
C20_ShrunkByFloor ==
  /\ ProbeStepped("BLUE")
  /\ probe.counts.trappedCount >= 58
  /\ FLt(length(probe.before.position), 2500)
  /\ probe.p.scale = FMul(probe.before.scale, 800)

\* what StepParticle leaves of the single slot's particle before the last
\* step if it had entered the step at rest
SteppedFromRest ==
  StepParticle([probe.before EXCEPT !.velocity = ZeroVec], IdentityMatrix, "#ffffff",
               probe.technique, probe.dt, probe.counts, probe.r).slot

\* 15 + 2 max(1, 15 - dist)
HollowSpeed(dist) ==
  15 * ONE + 2 * (IF 15 * ONE - dist > ONE THEN 15 * ONE - dist ELSE ONE)

\* C21: in PURPLE the velocity a step commits is the one the same step
\* commits for a particle at the same position with any other velocity, and
\* its magnitude is 15 + 2 max(1, 15 - distance) (within 0.1).
C21_HollowVelocityFromPosition ==
  ProbeStepped("PURPLE") =>
    /\ probe.p.velocity = SteppedFromRest.velocity
    /\ Near(length(probe.p.velocity), HollowSpeed(length(probe.before.position)),
            ONE \div 10)

\* a particle that entered a PURPLE step with speed above 100 left it with
\* another velocity
C21_FastParticleSteered ==
  /\ ProbeStepped("PURPLE")
  /\ FGt(length(probe.before.velocity), 100 * ONE)
  /\ probe.p.velocity # probe.before.velocity

\* the particles a and b agree in position, velocity, scale, age and active
SameParticle(a, b) ==
  /\ a.position = b.position
  /\ a.velocity = b.velocity
  /\ a.scale = b.scale
  /\ a.age = b.age
  /\ a.active = b.active

InteractionRadiusOf(technique) ==
  CASE technique = "NEUTRAL" -> interactionRadius
    [] technique = "RED"     -> repulsionRadius
    [] technique = "BLUE"    -> attractionRadius

\* C28: a NEUTRAL, RED or BLUE step of a particle at or beyond the mode's
\* radius (3.5, 4.5, 15) adds velocity x clamped delta to the position and
\* keeps velocity and scale; a RED step keeps the scale at any distance.
C28_BallisticOutside ==
  (probe.kind = "slot" /\ probe.steps > 0) =>
    /\ ( /\ probe.technique \in {"NEUTRAL", "RED", "BLUE"}
         /\ FGe(length(probe.before.position), InteractionRadiusOf(probe.technique)) ) =>
         /\ probe.p.position =
              VAdd(probe.before.position,
                   multiplyScalar(probe.before.velocity, probe.dt))
         /\ probe.p.velocity = probe.before.velocity
         /\ probe.p.scale = probe.before.scale
    /\ probe.technique = "RED" => probe.p.scale = probe.before.scale

\* a BLUE step left a particle at distance 15 alone
C28_BlueAtRadius ==
  /\ ProbeStepped("BLUE")
  /\ length(probe.before.position) = attractionRadius
  /\ probe.p.position # probe.before.position
  /\ probe.p.velocity = probe.before.velocity

\* C23: a render (mode, theme or parameter change) leaves every active flag
\* as it is; in a frame a flag goes from false to true only in the spawning
\* block and only for the slot it took, and the update pass behind it only
\* takes flags from true to false.
C23_ActivationOnlyBySpawner ==
  [][ /\ renders' # renders =>
           \A i \in Slots : instances'[i].active = instances[i].active
      /\ frame' # frame =>
           \A i \in Slots :
             /\ (last'.spawned[i].active # instances[i].active) =>
                  (~instances[i].active /\ i = last'.slot)
             /\ instances'[i].active => last'.spawned[i].active ]_vars

\* a render over a pool with an active and an inactive slot
C23_RenderOverMixedPool ==
  /\ last.kind = "render"
  /\ \E i \in Slots : instances[i].active
  /\ \E i \in Slots : ~instances[i].active

\* C24: across a frame the number of active particles grows by at most 1,
\* also when the clamped delta spans several scheduled intervals, and a frame
\* that attempted a spawn leaves the accumulated time at 0.
C24_OneAdmittedPerFrame ==
  AfterFrame =>
    /\ ActiveCount(instances) <= ActiveCount(last.before) + 1
    /\ ActiveCount(last.spawned) <= ActiveCount(last.before) + 1
    /\ last.attempted => timeSinceLastSpawn = 0

\* a frame whose accumulated time reached twice the scheduled interval, with
\* two free slots, admitted one particle
C24_DeltaSpansTwoIntervals ==
  /\ AfterFrame
  /\ last.attempted
  /\ FGt(last.intervalBefore, 0)
  /\ FGe(FAdd(last.timerBefore, last.safeDelta), 2 * last.intervalBefore)
  /\ Cardinality({i \in Slots : ~last.before[i].active}) >= 2
  /\ ActiveCount(last.spawned) = ActiveCount(last.before) + 1
  /\ timeSinceLastSpawn = 0

\* the positive finite spawn rates of the model
PositiveRates == {rate \in SpawnRates : FGt(rate, 0) /\ isFinite(rate)}

\* the intervals lines 151-153 and 207-209 schedule from the rate
IntervalsOf(rate) ==
  {RenderInterval(0, rate)} \cup {NextInterval(rate, d.rInterval) : d \in SpawnDraws}

\* C25: a render that changes spawnRate from one positive value to another
\* leaves the scheduled interval and the accumulated time as they are; a
\* frame attempts a spawn exactly when the accumulated time reaches the
\* interval scheduled before it, and only then schedules a new interval,
\* from the rate of that frame.
C25_RateChangeKeepsSchedule ==
  [][ /\ ( /\ props'.spawnRate # props.spawnRate
           /\ props.spawnRate \in PositiveRates
           /\ props'.spawnRate \in PositiveRates ) =>
           /\ nextSpawnInterval' = nextSpawnInterval
           /\ timeSinceLastSpawn' = timeSinceLastSpawn
      /\ (frame' # frame /\ props.spawnRate \in PositiveRates) =>
           /\ last'.attempted <=>
                FGe(FAdd(timeSinceLastSpawn, last'.safeDelta), nextSpawnInterval)
           /\ last'.attempted => nextSpawnInterval' \in IntervalsOf(props.spawnRate)
           /\ ~last'.attempted => nextSpawnInterval' = nextSpawnInterval ]_vars

\* after a render the rate is positive and the scheduled interval is one of
\* another positive rate, with time accumulated
C25_IntervalOfOldRate ==
  /\ last.kind = "render"
  /\ props.spawnRate \in PositiveRates
  /\ nextSpawnInterval \notin IntervalsOf(props.spawnRate)
  /\ \E old \in PositiveRates \ {props.spawnRate} : nextSpawnInterval \in IntervalsOf(old)
  /\ FGt(timeSinceLastSpawn, 0)

\* C27: the list of the list-based variant never holds more than 120
\* projectiles, and every projectile in it after a physics update is active.
C27_ListCapped ==
  /\ Len(projectiles) <= ListCap
  /\ \A i \in 1 .. Len(projectiles) : projectiles[i].active

\* C26: with a positive finite spawnRate and frames that keep coming with
\* delta > 0, spawn attempts occur infinitely often, and a frame whose
\* attempt found an inactive slot activated that slot.
C26_AttemptsRecur ==
  /\ []<>(AfterFrame /\ last.attempted)
  /\ [](( /\ AfterFrame /\ last.attempted
          /\ \E i \in Slots : ~last.before[i].active ) =>
          ( /\ last.slot # NoSlot
            /\ ~last.before[last.slot].active
            /\ last.spawned[last.slot].active ))

\* an attempt, after time accumulated over several frames, activated a slot
\* that a particle had left
C26_SlotReactivated ==
  /\ AfterFrame /\ last.attempted
  /\ FGt(last.timerBefore, 0)
  /\ last.slot # NoSlot
  /\ last.spawned[last.slot].active
  /\ FGt(last.before[last.slot].age, 0)

====
